---- MODULE Spec2Model ----
(***************************************************************************)
(* SQLGenPostProcessor (pipelines/generation/utils/sql.py): the classifier *)
(* of one generated SQL candidate.  Python strings are sequences of        *)
(* one-character strings, so that str.startswith, str.replace and the JSON *)
(* decoding are computed on the text itself.  Python dicts are functions   *)
(* from key names to values; {} is the function with the empty domain.     *)
(***************************************************************************)
EXTENDS Naturals, Sequences, FiniteSets, TLC

\* ------------------------------------------------------------------ text

\* the grave accent, a character the module's own syntax cannot quote
Backtick == "bt"

\* the timeout prefix the classifier sniffs for (sql.py lines 109, 134, 164)
S_RequestTimedOut == <<"R", "e", "q", "u", "e", "s", "t", " ", "t", "i", "m", "e", "d", " ", "o", "u", "t">>

\* engine error texts used as inputs
S_TimedOutDetail == <<"R", "e", "q", "u", "e", "s", "t", " ", "t", "i", "m", "e", "d", " ", "o", "u", "t", ":", " ", "3", "0", " ", "s", "e", "c", "o", "n", "d", "s">>
S_TimedOutShort == <<"R", "e", "q", "u", "e", "s", "t", " ", "t", "i", "m", "e", "d">>
S_TimedOutInside == <<"x", " ", "R", "e", "q", "u", "e", "s", "t", " ", "t", "i", "m", "e", "d", " ", "o", "u", "t">>
S_SyntaxError == <<"s", "y", "n", "t", "a", "x", " ", "e", "r", "r", "o", "r">>

\* formatting noise removed by the cleanup transform
S_FenceSql == <<Backtick, Backtick, Backtick, "s", "q", "l">>
S_FenceJson == <<Backtick, Backtick, Backtick, "j", "s", "o", "n">>
S_TripleDouble == <<"\"", "\"", "\"">>
S_TripleSingle == <<"'", "'", "'">>
S_Fence == <<Backtick, Backtick, Backtick>>
S_Semicolon == <<";">>

\* SQL keywords the quoting transform leaves bare, and the JSON key "sql"
S_SELECT == <<"S", "E", "L", "E", "C", "T">>
S_FROM == <<"F", "R", "O", "M">>
S_sql == <<"s", "q", "l">>

\* quoting error messages
S_Unterminated == <<"u", "n", "t", "e", "r", "m", "i", "n", "a", "t", "e", "d", " ", "s", "t", "r", "i", "n", "g", " ", "l", "i", "t", "e", "r", "a", "l">>
S_NoStatement == <<"n", "o", " ", "s", "t", "a", "t", "e", "m", "e", "n", "t">>

\* raw candidates (elements of replies)
R_Plain == <<"S", "E", "L", "E", "C", "T", " ", "a">>
R_Fenced == <<Backtick, Backtick, Backtick, "s", "q", "l", " ", " ", "S", "E", "L", "E", "C", "T", " ", "a", ";", " ", Backtick, Backtick, Backtick>>
R_Json == <<"{", "\"", "s", "q", "l", "\"", ":", " ", "\"", "S", "E", "L", "E", "C", "T", " ", "a", "\"", "}">>
R_JsonNoKey == <<"{", "\"", "q", "\"", ":", " ", "\"", "S", "E", "L", "E", "C", "T", " ", "a", "\"", "}">>
R_JsonBad == <<"{", "\"", "s", "q", "l", "\"", ":", " ", "\"", "S", "E", "L", "E", "C", "T", " ", "a", "\"">>
R_JsonBadSql == <<"{", "\"", "s", "q", "l", "\"", ":", " ", "\"", "S", "E", "L", "E", "C", "T", " ", "'", "a", "\"", "}">>
R_BadQuote == <<"S", "E", "L", "E", "C", "T", " ", "'", "a">>
R_Empty == <<>>

\* str.startswith(prefix)
StartsWith(s, prefix) ==
    /\ Len(s) >= Len(prefix)
    /\ SubSeq(s, 1, Len(prefix)) = prefix

\* whether pat occurs in s at position i
OccursAt(s, pat, i) ==
    /\ i + Len(pat) - 1 <= Len(s)
    /\ SubSeq(s, i, i + Len(pat) - 1) = pat

\* str.replace(pat, ""): every non-overlapping occurrence, left to right
RECURSIVE RemoveFrom(_, _, _)
RemoveFrom(s, pat, i) ==
    IF i > Len(s) THEN <<>>
    ELSE IF OccursAt(s, pat, i) THEN RemoveFrom(s, pat, i + Len(pat))
    ELSE <<s[i]>> \o RemoveFrom(s, pat, i + 1)

Remove(s, pat) == RemoveFrom(s, pat, 1)

\* re.sub(r"\s+", " ", s): a run of blanks collapses to one blank
RECURSIVE CollapseFrom(_, _)
CollapseFrom(s, i) ==
    IF i > Len(s) THEN <<>>
    ELSE IF s[i] = " " /\ i > 1 /\ s[i - 1] = " " THEN CollapseFrom(s, i + 1)
    ELSE <<s[i]>> \o CollapseFrom(s, i + 1)

\* str.strip()
Strip(s) ==
    LET nb == {i \in 1..Len(s) : s[i] # " "}
    IN  IF nb = {} THEN <<>>
        ELSE SubSeq(s, CHOOSE i \in nb : \A j \in nb : i <= j,
                       CHOOSE i \in nb : \A j \in nb : i >= j)

NormalizeWhitespace(s) == Strip(CollapseFrom(s, 1))

\* clean_generation_result applied to a str
CleanText(s) ==
    Remove(Remove(Remove(Remove(Remove(Remove(NormalizeWhitespace(s),
        S_FenceSql), S_FenceJson), S_TripleDouble), S_TripleSingle),
        S_Fence), S_Semicolon)

\* ------------------------------------------------- collaborators (pure)

\* the words of s: maximal runs of non-blank characters
RECURSIVE WordsFrom(_, _, _)
WordsFrom(s, i, cur) ==
    IF i > Len(s) THEN (IF cur = <<>> THEN <<>> ELSE <<cur>>)
    ELSE IF s[i] = " "
         THEN (IF cur = <<>> THEN <<>> ELSE <<cur>>) \o WordsFrom(s, i + 1, <<>>)
         ELSE WordsFrom(s, i + 1, Append(cur, s[i]))

Words(s) == WordsFrom(s, 1, <<>>)

RECURSIVE Join(_)
Join(ws) ==
    IF ws = <<>> THEN <<>>
    ELSE IF Len(ws) = 1 THEN ws[1]
    ELSE ws[1] \o <<" ">> \o Join(Tail(ws))

CountOf(s, ch) == Cardinality({i \in 1..Len(s) : s[i] = ch})

SqlKeywords == {S_SELECT, S_FROM}
IdentifierStart == {"a", "b", "o", "t"}
NotSqlChars == {"{", "}", "\"", ":", Backtick}

IsIdentifier(w) == w \notin SqlKeywords /\ w[1] \in IdentifierStart

QuoteWord(w) == IF IsIdentifier(w) THEN <<"\"">> \o w \o <<"\"">> ELSE w

\* the error add_quotes reports for sql, <<>> when it can quote it
QuoteError(sql) ==
    IF Words(sql) = <<>> THEN S_NoStatement
    ELSE IF CountOf(sql, "'") % 2 = 1 THEN S_Unterminated
    ELSE IF \E i \in 1..Len(sql) : sql[i] \in NotSqlChars THEN S_SyntaxError
    ELSE <<>>

\* add_quotes(sql) -> (quoted_sql, error): exactly one of the two is non-empty
add_quotes(sql) ==
    IF QuoteError(sql) # <<>> THEN <<<<>>, QuoteError(sql)>>
    ELSE <<Join([i \in 1..Len(Words(sql)) |-> QuoteWord(Words(sql)[i])]), <<>>>>

\* orjson.loads on a text that starts with "{": an object whose members are
\* "key": "string" pairs (no escapes inside the strings)
RECURSIVE SkipWs(_, _)
SkipWs(s, i) == IF i <= Len(s) /\ s[i] = " " THEN SkipWs(s, i + 1) ELSE i

CharAt(s, i) == IF i <= Len(s) THEN s[i] ELSE "EOF"

JsonFail == [ok |-> FALSE, val |-> <<>>, next |-> 0]

\* a string literal starting at i: its content and the position after it
JsonString(s, i) ==
    IF CharAt(s, i) # "\"" THEN JsonFail
    ELSE LET close == {j \in (i + 1)..Len(s) : s[j] = "\""}
         IN  IF close = {} THEN JsonFail
             ELSE LET j == CHOOSE k \in close : \A m \in close : k <= m
                  IN  [ok |-> TRUE, val |-> SubSeq(s, i + 1, j - 1), next |-> j + 1]

NoObject == [ok |-> FALSE, obj |-> <<>>]

RECURSIVE JsonMembers(_, _, _)
JsonMembers(s, i, obj) ==
    LET k == JsonString(s, i)
        c == SkipWs(s, k.next)
        v == JsonString(s, SkipWs(s, c + 1))
        e == SkipWs(s, v.next)
        more == (k.val :> v.val) @@ obj
    IN  IF ~k.ok \/ CharAt(s, c) # ":" \/ ~v.ok THEN NoObject
        ELSE IF CharAt(s, e) = "," THEN JsonMembers(s, SkipWs(s, e + 1), more)
        ELSE IF CharAt(s, e) = "}" /\ SkipWs(s, e + 1) > Len(s)
             THEN [ok |-> TRUE, obj |-> more]
        ELSE NoObject

orjson_loads(s) ==
    LET i == SkipWs(s, 2)
    IN  IF CharAt(s, 1) # "{" THEN NoObject
        ELSE IF CharAt(s, i) = "}"
             THEN (IF SkipWs(s, i + 1) > Len(s)
                   THEN [ok |-> TRUE, obj |-> <<>>] ELSE NoObject)
        ELSE JsonMembers(s, i, <<>>)

\* -------------------------------------------------------- Python values

PyNone == [none |-> TRUE]
PyStr(s) == [str |-> s]
PyList(items) == [list |-> items]
IsStr(v) == "str" \in DOMAIN v

\* bool(v) of a str or None: only a non-empty str is true
Truthy(v) == IsStr(v) /\ v.str # <<>>

\* {} : the dict with no key
EmptyDict == [k \in {} |-> <<>>]

\* dict.get(key, default)
Get(d, key, default) == IF key \in DOMAIN d THEN d[key] ELSE default

\* -------------------------------------------------------------- bounds

\* the longest replies list a call is given
MaxReplies == 2

\* ------------------------------------------------------------- inputs

\* the invocations of run the state has room for; Spec runs the first alone
Calls == {1, 2}

\* run's default timeout
DefaultTimeout == 30

\* the row limit of both execute modes
RowLimit == 1

FirstPool ==
    {PyStr(R_Plain), PyStr(R_Fenced), PyStr(R_Json), PyStr(R_JsonNoKey),
     PyStr(R_JsonBad), PyStr(R_JsonBadSql), PyStr(R_BadQuote), PyStr(R_Empty),
     PyList(<<PyStr(R_Plain)>>)}

TrailPool == {PyStr(R_Plain), PyStr(R_BadQuote)}

Trails == UNION {[1..n -> TrailPool] : n \in 0..(MaxReplies - 1)}

RepliesSet == {<<>>} \cup {<<f>> \o t : f \in FirstPool, t \in Trails}

ArgsSet ==
    [replies : RepliesSet,
     timeout : {DefaultTimeout},
     project_id : {PyNone, PyStr(<<"p">>)},
     use_dry_plan : BOOLEAN,
     allow_dry_plan_fallback : BOOLEAN,
     data_source : {<<>>, <<"p", "g">>},
     allow_data_preview : BOOLEAN]

\* what the engine may answer
ErrMsgs ==
    {<<>>, S_RequestTimedOut, S_TimedOutDetail, S_TimedOutShort,
     S_TimedOutInside, S_SyntaxError}

ErrVals == {PyStr(m) : m \in ErrMsgs} \cup {PyNone}

CorrelationIds == {"", "abc"}

NoKey == "<no key>"
NoEntry == [absent |-> TRUE]

MkAddition(cid, err) ==
    (IF cid = NoKey THEN EmptyDict ELSE [correlation_id |-> cid])
    @@ (IF err = NoEntry THEN EmptyDict ELSE [error_message |-> err])

Additions ==
    {MkAddition(cid, err) : cid \in CorrelationIds \cup {NoKey},
                            err \in ErrVals \cup {NoEntry}}

\* Engine.dry_plan -> (ok, error)
DryPlanReplies == [ok : BOOLEAN, error : ErrVals]

\* Engine.execute_sql -> (ok, rows, addition); rows is never read
ExecuteReplies == [ok : BOOLEAN, addition : Additions]

\* the exceptions the steps of a call raise
ExceptionClasses ==
    {"IndexError", "TypeError", "JSONDecodeError", "KeyError",
     "AttributeError", "ClientError", "RuntimeError", "ValueError"}

\* ------------------------------------------- InstructionsService: values

\* the texts of lines 119, 157 and 168
S_IndexFailed == <<"A", "n", " ", "e", "r", "r", "o", "r", " ", "o", "c", "c", "u", "r", "r", "e", "d", " ", "d", "u", "r", "i", "n", "g", " ", "i", "n", "s", "t", "r", "u", "c", "t", "i", "o", "n", "s", " ", "i", "n", "d", "e", "x", "i", "n", "g", ":", " ">>
S_DeleteFailed == <<"F", "a", "i", "l", "e", "d", " ", "t", "o", " ", "d", "e", "l", "e", "t", "e", " ", "i", "n", "s", "t", "r", "u", "c", "t", "i", "o", "n", "s", ":", " ">>
S_NotFoundHead == <<"I", "n", "s", "t", "r", "u", "c", "t", "i", "o", "n", "s", " ", "E", "v", "e", "n", "t", " ", "w", "i", "t", "h", " ", "I", "D", " ", "'">>
S_NotFoundTail == <<"'", " ", "n", "o", "t", " ", "f", "o", "u", "n", "d", ".">>

\* str(e) of the exceptions the pipeline raises
S_Boom == <<"b", "o", "o", "m">>

\* lines 25-27
Error(code, message) == [code |-> code, message |-> message]

\* lines 29-34; error and trace_id are PyNone or a value
Event(event_id, status, error, trace, request_from) ==
    [event_id |-> event_id, status |-> status, error |-> error,
     trace_id |-> trace, request_from |-> request_from]

\* the defaults of lines 31-34
DefaultStatus == "indexing"
DefaultRequestFrom == "ui"

\* MetadataTraceable.with_metadata: the event and what tracing reads of it
WithMetadata(event) ==
    [resource |-> event,
     metadata |->
        [error_type |-> IF event.error = PyNone THEN PyNone
                        ELSE PyStr(event.error.code),
         error_message |-> IF event.error = PyNone THEN PyNone
                           ELSE PyStr(event.error.message),
         request_from |-> event.request_from]]

\* the longest instructions list of a request
MaxInstructions == 2

EventIds == {<<"e", "1">>, <<"e", "2">>}

\* lines 17-23
ServiceInstruction(id, questions, is_default, scope) ==
    [id |-> id, instruction |-> <<"d", "o">> \o id, questions |-> questions,
     is_default |-> is_default, scope |-> scope]

InstructionPool ==
    {ServiceInstruction(<<"a">>, <<<<"q", "1">>>>, TRUE, "chart"),
     ServiceInstruction(<<"c">>, <<<<"q", "1">>, <<"q", "2">>>>, FALSE, "sql"),
     ServiceInstruction(<<"d">>, <<>>, FALSE, "answer")}

InstructionLists(n) == UNION {[1..m -> InstructionPool] : m \in 0..n}

InstructionIdLists == {<<>>, <<<<"a">>, <<"c">>>>}

RequestFroms == {"ui", "api"}

TraceIds == {PyNone, PyStr(<<"t">>)}

\* IndexRequest (lines 63-65) with the fields of BaseRequest that are read
IndexRequests(n) ==
    [op : {"index"}, event_id : EventIds, instructions : InstructionLists(n),
     project_id : {PyStr(<<"p">>)}, request_from : RequestFroms]

\* DeleteRequest (lines 126-128) with the fields of BaseRequest that are read
DeleteRequests ==
    [op : {"delete"}, event_id : EventIds,
     instruction_ids : InstructionIdLists,
     project_id : {PyStr(<<"p">>)}, request_from : RequestFroms]

NoRequest == [op |-> "none"]

\* what __setitem__ is given by the routes: the event of a request accepted
PendingEvents(id) ==
    {Event(id, st, PyNone, PyNone, DefaultRequestFrom) :
        st \in {"indexing", "deleting"}}

ExceptionTexts == {S_Boom}

NoLookup == [none |-> TRUE]

\* ---------------------------------------------------------------- state

VARIABLES
    pc,                         \* where each call of run stands
    args,                       \* the arguments of the call
    cleaned_generation_result,  \* run's local (line 40)
    quoted_sql,                 \* _classify_generation_result's locals
    error_message,
    use_dry_run,
    session,                    \* the ClientSession of the call, 0 when none
    valid_generation_result,
    invalid_generation_result,
    raised,                     \* the exception in flight or caught, "" when none
    result,                     \* what run returned
    engine_calls,               \* the engine operations the call invoked
    engine_replies,             \* what the engine answered to them
    quote_calls,                \* the calls of add_quotes: its argument, and
                                \* whether it returned (or raised)
    acquired,                   \* the sessions the call has acquired
    open_sessions,              \* the sessions not yet closed
    \* InstructionsService (web/v1/services/instructions.py)
    cache,                      \* self._cache: event id -> Event, or no entry
    service_pc,                 \* where each call of index or delete stands
    request,                    \* the request of the call
    trace_id,                   \* kwargs.get("trace_id") of the call
    pipeline_calls,             \* what the call handed to the pipeline
    returned,                   \* what the call returned
    writes,                     \* the cache writes of index and delete, in
                                \* order: the call, the entry it replaced and
                                \* the event written
    lookup                      \* the last __getitem__: its argument, its
                                \* answer and the cache entry around it

processor_vars ==
    <<pc, args, cleaned_generation_result, quoted_sql, error_message,
      use_dry_run, session, valid_generation_result,
      invalid_generation_result, raised, result, engine_calls,
      engine_replies, quote_calls, acquired, open_sessions>>

service_vars ==
    <<cache, service_pc, request, trace_id, pipeline_calls, returned, writes,
      lookup>>

vars == <<processor_vars, service_vars>>

NoResult == [none |-> TRUE]

DefaultArgs ==
    [replies |-> <<>>, timeout |-> DefaultTimeout, project_id |-> PyNone,
     use_dry_plan |-> FALSE, allow_dry_plan_fallback |-> TRUE,
     data_source |-> <<>>, allow_data_preview |-> FALSE]

Init ==
    /\ pc = [c \in Calls |-> "idle"]
    /\ args = [c \in Calls |-> DefaultArgs]
    /\ cleaned_generation_result = [c \in Calls |-> <<>>]
    /\ quoted_sql = [c \in Calls |-> <<>>]
    /\ error_message = [c \in Calls |-> PyStr(<<>>)]
    /\ use_dry_run = [c \in Calls |-> TRUE]
    /\ session = [c \in Calls |-> 0]
    /\ valid_generation_result = [c \in Calls |-> EmptyDict]
    /\ invalid_generation_result = [c \in Calls |-> EmptyDict]
    /\ raised = [c \in Calls |-> ""]
    /\ result = [c \in Calls |-> NoResult]
    /\ engine_calls = [c \in Calls |-> <<>>]
    /\ engine_replies = [c \in Calls |-> <<>>]
    /\ quote_calls = [c \in Calls |-> <<>>]
    /\ acquired = [c \in Calls |-> <<>>]
    /\ open_sessions = {}
    /\ cache = [id \in EventIds |-> NoEntry]
    /\ service_pc = [k \in Calls |-> "idle"]
    /\ request = [k \in Calls |-> NoRequest]
    /\ trace_id = [k \in Calls |-> PyNone]
    /\ pipeline_calls = [k \in Calls |-> <<>>]
    /\ returned = [k \in Calls |-> NoResult]
    /\ writes = <<>>
    /\ lookup = NoLookup

\* ------------------------------------------------------ SQLGenPostProcessor

\* run is called with the arguments a (each call id is one invocation):
\* every local is fresh
CallWith(c, a) ==
    /\ pc[c] = "idle"
    /\ args' = [args EXCEPT ![c] = a]
    /\ pc' = [pc EXCEPT ![c] = "normalize"]
    /\ cleaned_generation_result' =
          [cleaned_generation_result EXCEPT ![c] = <<>>]
    /\ quoted_sql' = [quoted_sql EXCEPT ![c] = <<>>]
    /\ error_message' = [error_message EXCEPT ![c] = PyStr(<<>>)]
    /\ use_dry_run' = [use_dry_run EXCEPT ![c] = TRUE]
    /\ session' = [session EXCEPT ![c] = 0]
    /\ valid_generation_result' =
          [valid_generation_result EXCEPT ![c] = EmptyDict]
    /\ invalid_generation_result' =
          [invalid_generation_result EXCEPT ![c] = EmptyDict]
    /\ raised' = [raised EXCEPT ![c] = ""]
    /\ result' = [result EXCEPT ![c] = NoResult]
    /\ engine_calls' = [engine_calls EXCEPT ![c] = <<>>]
    /\ engine_replies' = [engine_replies EXCEPT ![c] = <<>>]
    /\ quote_calls' = [quote_calls EXCEPT ![c] = <<>>]
    /\ acquired' = [acquired EXCEPT ![c] = <<>>]
    /\ UNCHANGED open_sessions
    /\ UNCHANGED service_vars

Call(c) == \E a \in ArgsSet : CallWith(c, a)

\* lines 40-46: the exception the normalizer raises on replies, "" when none
NormalizeError(replies) ==
    IF Len(replies) = 0 THEN "IndexError"
    ELSE IF ~IsStr(replies[1]) THEN "TypeError"
    ELSE LET cleaned == CleanText(replies[1].str)
         IN  IF ~StartsWith(cleaned, <<"{">>) THEN ""
             ELSE IF ~orjson_loads(cleaned).ok THEN "JSONDecodeError"
             ELSE IF S_sql \notin DOMAIN orjson_loads(cleaned).obj THEN "KeyError"
             ELSE ""

\* line 39 with the last candidate read instead of the first
NormalizedLast(replies) ==
    LET cleaned == CleanText(replies[Len(replies)].str)
    IN  IF StartsWith(cleaned, <<"{">>) THEN orjson_loads(cleaned).obj[S_sql]
        ELSE cleaned

\* lines 43-46 left out: the cleaned text is handed on as it is
NormalizedNoUnwrap(replies) == CleanText(replies[1].str)

\* lines 40-46: the text handed to _classify_generation_result
Normalized(replies) ==
    LET cleaned == CleanText(replies[1].str)
    IN  IF StartsWith(cleaned, <<"{">>) THEN orjson_loads(cleaned).obj[S_sql]
        ELSE cleaned

\* lines 43-46 guarded: text that is no envelope with key sql is classified
\* as it is instead of ending the call
NormalizeFallback(c) ==
    /\ pc[c] = "normalize"
    /\ LET e == NormalizeError(args[c].replies)
       IN  IF e \in {"IndexError", "TypeError"}
           THEN /\ raised' = [raised EXCEPT ![c] = e]
                /\ pc' = [pc EXCEPT ![c] = "return"]
                /\ UNCHANGED cleaned_generation_result
           ELSE /\ cleaned_generation_result' =
                      [cleaned_generation_result EXCEPT
                          ![c] = IF e = "" THEN Normalized(args[c].replies)
                                 ELSE CleanText(args[c].replies[1].str)]
                /\ pc' = [pc EXCEPT ![c] = "classify"]
                /\ UNCHANGED raised
    /\ UNCHANGED <<args, quoted_sql, error_message, use_dry_run, session,
                   valid_generation_result, invalid_generation_result, result,
                   engine_calls, engine_replies, quote_calls, acquired,
                   open_sessions>>
    /\ UNCHANGED service_vars


Normalize(c) ==
    /\ pc[c] = "normalize"
    /\ LET e == NormalizeError(args[c].replies)
       IN  IF e # ""
           THEN /\ raised' = [raised EXCEPT ![c] = e]
                /\ pc' = [pc EXCEPT ![c] = "return"]
                /\ UNCHANGED cleaned_generation_result
           ELSE /\ cleaned_generation_result' =
                      [cleaned_generation_result EXCEPT
                          ![c] = Normalized(args[c].replies)]
                /\ pc' = [pc EXCEPT ![c] = "classify"]
                /\ UNCHANGED raised
    /\ UNCHANGED <<args, quoted_sql, error_message, use_dry_run, session,
                   valid_generation_result, invalid_generation_result, result,
                   engine_calls, engine_replies, quote_calls, acquired,
                   open_sessions>>
    /\ UNCHANGED service_vars

\* line 87 with the flag taken as it is, not negated
UseDryRunInverted(allow_data_preview) == allow_data_preview

\* line 87
UseDryRun(allow_data_preview) == ~allow_data_preview

\* lines 83-87; add_quotes may fail as any collaborator may
Quote(c) ==
    /\ pc[c] = "classify"
    /\ LET sql == cleaned_generation_result[c]
       IN  \/ /\ quoted_sql' = [quoted_sql EXCEPT ![c] = add_quotes(sql)[1]]
              /\ error_message' =
                    [error_message EXCEPT ![c] = PyStr(add_quotes(sql)[2])]
              /\ use_dry_run' =
                    [use_dry_run EXCEPT
                        ![c] = UseDryRun(args[c].allow_data_preview)]
              /\ quote_calls' =
                    [quote_calls EXCEPT
                        ![c] = Append(@, [sql |-> sql, returned |-> TRUE])]
              /\ pc' = [pc EXCEPT ![c] = "enter_session"]
              /\ UNCHANGED raised
           \/ /\ raised' = [raised EXCEPT ![c] = "ValueError"]
              /\ quote_calls' =
                    [quote_calls EXCEPT
                        ![c] = Append(@, [sql |-> sql, returned |-> FALSE])]
              /\ pc' = [pc EXCEPT ![c] = "return"]
              /\ UNCHANGED <<quoted_sql, error_message, use_dry_run>>
    /\ UNCHANGED <<args, cleaned_generation_result, session,
                   valid_generation_result, invalid_generation_result, result,
                   engine_calls, engine_replies, acquired, open_sessions>>
    /\ UNCHANGED service_vars

\* line 89 with the session of the first call kept on the processor and used
\* by the calls after it
SessionKept ==
    IF acquired[1] # <<>> THEN acquired[1][1] ELSE Cardinality({acquired[1]})

\* a ClientSession is a new object: one no call has held before
FreshSession ==
    CHOOSE s \in 1..Cardinality(Calls) :
        \A c \in Calls : \A i \in DOMAIN acquired[c] : acquired[c][i] # s

\* line 89 moved inside line 90: the session is made only when there is SQL
\* to send
EnterSessionIfQuoted(c) ==
    /\ pc[c] = "enter_session"
    /\ \/ /\ Truthy(error_message[c])
          /\ pc' = [pc EXCEPT ![c] = "dispatch"]
          /\ UNCHANGED <<session, open_sessions, acquired, raised>>
       \/ /\ ~Truthy(error_message[c])
          /\ session' = [session EXCEPT ![c] = FreshSession]
          /\ open_sessions' = open_sessions \cup {FreshSession}
          /\ acquired' = [acquired EXCEPT ![c] = Append(@, FreshSession)]
          /\ pc' = [pc EXCEPT ![c] = "dispatch"]
          /\ UNCHANGED raised
       \/ /\ raised' = [raised EXCEPT ![c] = "RuntimeError"]
          /\ pc' = [pc EXCEPT ![c] = "return"]
          /\ UNCHANGED <<session, open_sessions, acquired>>
    /\ UNCHANGED <<args, cleaned_generation_result, quoted_sql, error_message,
                   use_dry_run, valid_generation_result,
                   invalid_generation_result, result, engine_calls,
                   engine_replies, quote_calls>>
    /\ UNCHANGED service_vars

\* line 89: async with aiohttp.ClientSession() as session
EnterSession(c) ==
    /\ pc[c] = "enter_session"
    /\ \/ /\ session' = [session EXCEPT ![c] = FreshSession]
          /\ open_sessions' = open_sessions \cup {FreshSession}
          /\ acquired' = [acquired EXCEPT ![c] = Append(@, FreshSession)]
          /\ pc' = [pc EXCEPT ![c] = "dispatch"]
          /\ UNCHANGED raised
       \/ /\ raised' = [raised EXCEPT ![c] = "RuntimeError"]
          /\ pc' = [pc EXCEPT ![c] = "return"]
          /\ UNCHANGED <<session, open_sessions, acquired>>
    /\ UNCHANGED <<args, cleaned_generation_result, quoted_sql, error_message,
                   use_dry_run, valid_generation_result,
                   invalid_generation_result, result, engine_calls,
                   engine_replies, quote_calls>>
    /\ UNCHANGED service_vars

\* line 90 testing the error against None instead of its truth value
QuotingFailedIfNone(err) == ~IsStr(err)

\* line 90: "if not error_message" fails, the else branch of line 169 runs
QuotingFailed(err) == Truthy(err)

\* lines 91, 114, 139 with the live preview tested before the dry plan
ModePreviewFirst(use_dry_plan, dry_run) ==
    IF ~dry_run THEN "LIVE_PREVIEW"
    ELSE IF use_dry_plan THEN "DRY_PLAN"
    ELSE "DRY_RUN"

\* lines 91, 114, 139: the branch taken once quoting succeeded
Mode(use_dry_plan, dry_run) ==
    IF use_dry_plan THEN "DRY_PLAN"
    ELSE IF dry_run THEN "DRY_RUN"
    ELSE "LIVE_PREVIEW"

\* lines 92-98: the dry_plan call
DryPlanRequest(a, sql, s) ==
    [op |-> "dry_plan", session |-> s, sql |-> sql,
     data_source |-> a.data_source, timeout |-> a.timeout,
     allow_fallback |-> a.allow_dry_plan_fallback]

\* lines 115-122 and 140-147: the execute_sql call
ExecuteRequest(a, sql, s, dry_run) ==
    [op |-> "execute_sql", session |-> s, sql |-> sql,
     project_id |-> a.project_id, timeout |-> a.timeout,
     limit |-> RowLimit, dry_run |-> dry_run]

EngineRequest(a, sql, s, dry_run) ==
    IF Mode(a.use_dry_plan, dry_run) = "DRY_PLAN" THEN DryPlanRequest(a, sql, s)
    ELSE IF Mode(a.use_dry_plan, dry_run) = "DRY_RUN"
         THEN ExecuteRequest(a, sql, s, TRUE)
    ELSE ExecuteRequest(a, sql, s, FALSE)

\* lines 170-174 carrying quoted_sql, as every other branch does
AddQuotesFailureQuoted(generation_result, err) ==
    [sql |-> add_quotes(generation_result)[1], type |-> "ADD_QUOTES",
     error |-> err]

\* lines 170-174
AddQuotesFailure(generation_result, err) ==
    [sql |-> generation_result, type |-> "ADD_QUOTES", error |-> err]

\* lines 92-98, 115-122, 140-147 with the candidate, not the quoted SQL, sent
\* to the engine
DispatchRaw(c) ==
    /\ pc[c] = "dispatch"
    /\ IF QuotingFailed(error_message[c])
       THEN /\ invalid_generation_result' =
                  [invalid_generation_result EXCEPT
                      ![c] = AddQuotesFailure(cleaned_generation_result[c],
                                              error_message[c].str)]
            /\ pc' = [pc EXCEPT ![c] = "exit_session"]
            /\ UNCHANGED engine_calls
       ELSE /\ engine_calls' =
                  [engine_calls EXCEPT
                      ![c] = Append(@, EngineRequest(args[c],
                                                     cleaned_generation_result[c],
                                                     session[c], use_dry_run[c]))]
            /\ pc' = [pc EXCEPT ![c] = "await_engine"]
            /\ UNCHANGED invalid_generation_result
    /\ UNCHANGED <<args, cleaned_generation_result, quoted_sql, error_message,
                   use_dry_run, session, valid_generation_result, raised,
                   result, engine_replies, quote_calls, acquired,
                   open_sessions>>
    /\ UNCHANGED service_vars

\* lines 90-98, 114-122, 139-147, 169-174: the engine call is issued, or the
\* quoting error is reported without one
Dispatch(c) ==
    /\ pc[c] = "dispatch"
    /\ IF QuotingFailed(error_message[c])
       THEN /\ invalid_generation_result' =
                  [invalid_generation_result EXCEPT
                      ![c] = AddQuotesFailure(cleaned_generation_result[c],
                                              error_message[c].str)]
            /\ pc' = [pc EXCEPT ![c] = "exit_session"]
            /\ UNCHANGED engine_calls
       ELSE /\ engine_calls' =
                  [engine_calls EXCEPT
                      ![c] = Append(@, EngineRequest(args[c], quoted_sql[c],
                                                     session[c], use_dry_run[c]))]
            /\ pc' = [pc EXCEPT ![c] = "await_engine"]
            /\ UNCHANGED invalid_generation_result
    /\ UNCHANGED <<args, cleaned_generation_result, quoted_sql, error_message,
                   use_dry_run, session, valid_generation_result, raised,
                   result, engine_replies, quote_calls, acquired,
                   open_sessions>>
    /\ UNCHANGED service_vars

\* the outcome of a mapping: the exception it raises ("" when none) and the
\* two dicts it leaves
Outcome(exc, valid, invalid) == [raise |-> exc, valid |-> valid, invalid |-> invalid]

\* lines 109, 134, 164 comparing the whole message instead of its prefix
TimeOutOrExact(err, other) ==
    IF err = S_RequestTimedOut THEN "TIME_OUT" ELSE other

\* lines 108-110, 133-135, 163-165 naming the timeout as no other place does
TimeOutOrMisspelt(err, other) ==
    IF StartsWith(err, S_RequestTimedOut) THEN "TIMEOUT" ELSE other

\* lines 109, 134, 164
TimeOutOr(err, other) ==
    IF StartsWith(err, S_RequestTimedOut) THEN "TIME_OUT" ELSE other

\* lines 100-113 with the failure type of the dry run branch pasted in
DryPlanOutcomeAsDryRun(sql, dry_plan_result, err) ==
    IF dry_plan_result
    THEN Outcome("", [sql |-> sql, correlation_id |-> ""], EmptyDict)
    ELSE IF ~IsStr(err) THEN Outcome("AttributeError", EmptyDict, EmptyDict)
    ELSE Outcome("", EmptyDict,
                 [sql |-> sql, type |-> TimeOutOr(err.str, "DRY_RUN"),
                  error |-> err.str, correlation_id |-> ""])

\* lines 100-113 with the invalid outcome built as the ADD_QUOTES one is,
\* without correlation_id
DryPlanOutcomeNoId(sql, dry_plan_result, err) ==
    IF dry_plan_result
    THEN Outcome("", [sql |-> sql, correlation_id |-> ""], EmptyDict)
    ELSE IF ~IsStr(err) THEN Outcome("AttributeError", EmptyDict, EmptyDict)
    ELSE Outcome("", EmptyDict,
                 [sql |-> sql, type |-> TimeOutOr(err.str, "DRY_PLAN"),
                  error |-> err.str])

\* lines 100-113
DryPlanOutcome(sql, dry_plan_result, err) ==
    IF dry_plan_result
    THEN Outcome("", [sql |-> sql, correlation_id |-> ""], EmptyDict)
    ELSE IF ~IsStr(err) THEN Outcome("AttributeError", EmptyDict, EmptyDict)
    ELSE Outcome("", EmptyDict,
                 [sql |-> sql, type |-> TimeOutOr(err.str, "DRY_PLAN"),
                  error |-> err.str, correlation_id |-> ""])

\* lines 124-138 with the correlation_id of the dry plan branch, ""
DryRunOutcomeNoId(sql, status, addition) ==
    LET err == Get(addition, "error_message", PyStr(<<>>))
    IN  IF status
        THEN Outcome("", [sql |-> sql, correlation_id |-> ""], EmptyDict)
        ELSE IF ~IsStr(err) THEN Outcome("AttributeError", EmptyDict, EmptyDict)
        ELSE Outcome("", EmptyDict,
                     [sql |-> sql, type |-> TimeOutOr(err.str, "DRY_RUN"),
                      error |-> err.str, correlation_id |-> ""])

\* lines 124-138
DryRunOutcome(sql, status, addition) ==
    LET err == Get(addition, "error_message", PyStr(<<>>))
    IN  IF status
        THEN Outcome("", [sql |-> sql,
                          correlation_id |-> Get(addition, "correlation_id", "")],
                     EmptyDict)
        ELSE IF ~IsStr(err) THEN Outcome("AttributeError", EmptyDict, EmptyDict)
        ELSE Outcome("", EmptyDict,
                     [sql |-> sql, type |-> TimeOutOr(err.str, "DRY_RUN"),
                      error |-> err.str,
                      correlation_id |-> Get(addition, "correlation_id", "")])

\* lines 156-160 with the two categories exchanged
PreviewDataStatusSwapped(err) ==
    IF err = PyStr(<<>>) THEN "PREVIEW_FAILED" ELSE "PREVIEW_EMPTY_DATA"

\* lines 156-160
PreviewDataStatus(err) ==
    IF err = PyStr(<<>>) THEN "PREVIEW_EMPTY_DATA" ELSE "PREVIEW_FAILED"

\* lines 149-168 where a failure without a message leaves both dicts empty
PreviewOutcomeSkipEmpty(sql, status, addition) ==
    LET err == Get(addition, "error_message", PyStr(<<>>))
    IN  IF status
        THEN Outcome("", [sql |-> sql,
                          correlation_id |-> Get(addition, "correlation_id", "")],
                     EmptyDict)
        ELSE IF ~IsStr(err) THEN Outcome("AttributeError", EmptyDict, EmptyDict)
        ELSE IF err.str = <<>> THEN Outcome("", EmptyDict, EmptyDict)
        ELSE Outcome("", EmptyDict,
                     [sql |-> sql,
                      type |-> TimeOutOr(err.str, "PREVIEW_FAILED"),
                      error |-> err.str,
                      correlation_id |-> Get(addition, "correlation_id", "")])

\* lines 149-168
PreviewOutcome(sql, status, addition) ==
    LET err == Get(addition, "error_message", PyStr(<<>>))
    IN  IF status
        THEN Outcome("", [sql |-> sql,
                          correlation_id |-> Get(addition, "correlation_id", "")],
                     EmptyDict)
        ELSE IF ~IsStr(err) THEN Outcome("AttributeError", EmptyDict, EmptyDict)
        ELSE Outcome("", EmptyDict,
                     [sql |-> sql,
                      type |-> TimeOutOr(err.str, PreviewDataStatus(err)),
                      error |-> err.str,
                      correlation_id |-> Get(addition, "correlation_id", "")])

\* the local error_message after the engine answered (lines 92, 130, 155)
ErrorAfter(mode, old, reply) ==
    IF mode = "DRY_PLAN" THEN reply.error
    ELSE IF reply.ok THEN old
    ELSE Get(reply.addition, "error_message", PyStr(<<>>))

\* the mapping carrying the candidate instead of quoted_sql
EngineOutcomeRaw(mode, generation_result, sql, reply) ==
    IF mode = "DRY_PLAN"
    THEN DryPlanOutcome(generation_result, reply.ok, reply.error)
    ELSE IF mode = "DRY_RUN"
         THEN DryRunOutcome(generation_result, reply.ok, reply.addition)
    ELSE PreviewOutcome(generation_result, reply.ok, reply.addition)

\* the mapping of the branch the call is in; both the candidate
\* (generation_result) and quoted_sql are in scope there
EngineOutcome(mode, generation_result, sql, reply) ==
    IF mode = "DRY_PLAN" THEN DryPlanOutcome(sql, reply.ok, reply.error)
    ELSE IF mode = "DRY_RUN" THEN DryRunOutcome(sql, reply.ok, reply.addition)
    ELSE PreviewOutcome(sql, reply.ok, reply.addition)

EngineReplies(mode) ==
    IF mode = "DRY_PLAN" THEN DryPlanReplies ELSE ExecuteReplies

\* the engine's answer handled with one retry: a first failure issues the
\* same request again instead of being mapped
EngineReturnsRetry(c) ==
    /\ pc[c] = "await_engine"
    /\ LET mode == Mode(args[c].use_dry_plan, use_dry_run[c])
       IN  \E reply \in EngineReplies(mode) :
             LET o == EngineOutcome(mode, cleaned_generation_result[c],
                                    quoted_sql[c], reply)
             IN  IF ~reply.ok /\ Len(engine_calls[c]) = 1
                 THEN /\ engine_calls' =
                            [engine_calls EXCEPT
                                ![c] = Append(@, engine_calls[c][1])]
                      /\ engine_replies' =
                            [engine_replies EXCEPT ![c] = Append(@, reply)]
                      /\ UNCHANGED <<pc, error_message, valid_generation_result,
                                     invalid_generation_result, raised>>
                 ELSE /\ error_message' =
                            [error_message EXCEPT
                                ![c] = ErrorAfter(mode, error_message[c], reply)]
                      /\ valid_generation_result' =
                            [valid_generation_result EXCEPT ![c] = o.valid]
                      /\ invalid_generation_result' =
                            [invalid_generation_result EXCEPT ![c] = o.invalid]
                      /\ raised' = [raised EXCEPT ![c] = o.raise]
                      /\ engine_replies' =
                            [engine_replies EXCEPT ![c] = Append(@, reply)]
                      /\ pc' = [pc EXCEPT ![c] = "exit_session"]
                      /\ UNCHANGED engine_calls
    /\ UNCHANGED <<args, cleaned_generation_result, quoted_sql, use_dry_run,
                   session, result, quote_calls, acquired, open_sessions>>
    /\ UNCHANGED service_vars

\* the awaited engine call returns and its answer is mapped (lines 100-113,
\* 124-138, 149-168)
EngineReturns(c) ==
    /\ pc[c] = "await_engine"
    /\ LET mode == Mode(args[c].use_dry_plan, use_dry_run[c])
       IN  \E reply \in EngineReplies(mode) :
             LET o == EngineOutcome(mode, cleaned_generation_result[c],
                                    quoted_sql[c], reply)
             IN  /\ error_message' =
                       [error_message EXCEPT
                           ![c] = ErrorAfter(mode, error_message[c], reply)]
                 /\ valid_generation_result' =
                       [valid_generation_result EXCEPT ![c] = o.valid]
                 /\ invalid_generation_result' =
                       [invalid_generation_result EXCEPT ![c] = o.invalid]
                 /\ raised' = [raised EXCEPT ![c] = o.raise]
                 /\ engine_replies' = [engine_replies EXCEPT ![c] = Append(@, reply)]
    /\ pc' = [pc EXCEPT ![c] = "exit_session"]
    /\ UNCHANGED <<args, cleaned_generation_result, quoted_sql, use_dry_run,
                   session, result, engine_calls, quote_calls, acquired,
                   open_sessions>>
    /\ UNCHANGED service_vars

\* the awaited engine call raises
EngineRaises(c) ==
    /\ pc[c] = "await_engine"
    /\ raised' = [raised EXCEPT ![c] = "ClientError"]
    /\ pc' = [pc EXCEPT ![c] = "exit_session"]
    /\ UNCHANGED <<args, cleaned_generation_result, quoted_sql, error_message,
                   use_dry_run, session, valid_generation_result,
                   invalid_generation_result, result, engine_calls,
                   engine_replies,
                   quote_calls, acquired, open_sessions>>
    /\ UNCHANGED service_vars

\* line 89 with the session closed on the normal exit only, as a close()
\* written at the end of the block instead of async with would do
ExitSessionLeakOnError(c) ==
    /\ pc[c] = "exit_session"
    /\ open_sessions' =
          IF raised[c] = "" THEN open_sessions \ {session[c]} ELSE open_sessions
    /\ pc' = [pc EXCEPT ![c] = "return"]
    /\ UNCHANGED <<args, cleaned_generation_result, quoted_sql, error_message,
                   use_dry_run, session, valid_generation_result,
                   invalid_generation_result, raised, result, engine_calls,
                   engine_replies, quote_calls, acquired>>
    /\ UNCHANGED service_vars

\* line 89 with one connection pool behind every session: leaving the block
\* closes the sessions of all calls
ExitSessionCloseAll(c) ==
    /\ pc[c] = "exit_session"
    /\ open_sessions' = {}
    /\ pc' = [pc EXCEPT ![c] = "return"]
    /\ UNCHANGED <<args, cleaned_generation_result, quoted_sql, error_message,
                   use_dry_run, session, valid_generation_result,
                   invalid_generation_result, raised, result, engine_calls,
                   engine_replies, quote_calls, acquired>>
    /\ UNCHANGED service_vars

\* line 89, leaving the async with block: the session is closed, whether the
\* block ended normally or by an exception
ExitSession(c) ==
    /\ pc[c] = "exit_session"
    /\ open_sessions' = open_sessions \ {session[c]}
    /\ pc' = [pc EXCEPT ![c] = "return"]
    /\ UNCHANGED <<args, cleaned_generation_result, quoted_sql, error_message,
                   use_dry_run, session, valid_generation_result,
                   invalid_generation_result, raised, result, engine_calls,
                   engine_replies,
                   quote_calls, acquired>>
    /\ UNCHANGED service_vars

\* line 65 catching the JSON decoding error only
CaughtDecodeOnly(exc) == exc = "JSONDecodeError"

\* line 65: except Exception
Caught(exc) == exc \in ExceptionClasses

\* lines 68-71
ExceptResult ==
    [valid_generation_result |-> EmptyDict,
     invalid_generation_result |-> EmptyDict]

\* lines 61-64
NormalResult(valid, invalid) ==
    [valid_generation_result |-> valid, invalid_generation_result |-> invalid]

\* lines 61-71: run returns, or the exception leaves it
Return(c) ==
    /\ pc[c] = "return"
    /\ IF raised[c] = ""
       THEN /\ result' = [result EXCEPT
                            ![c] = NormalResult(valid_generation_result[c],
                                                invalid_generation_result[c])]
            /\ pc' = [pc EXCEPT ![c] = "done"]
       ELSE IF Caught(raised[c])
       THEN /\ result' = [result EXCEPT ![c] = ExceptResult]
            /\ pc' = [pc EXCEPT ![c] = "done"]
       ELSE /\ pc' = [pc EXCEPT ![c] = "propagated"]
            /\ UNCHANGED result
    /\ UNCHANGED <<args, cleaned_generation_result, quoted_sql, error_message,
                   use_dry_run, session, valid_generation_result,
                   invalid_generation_result, raised, engine_calls,
                   engine_replies,
                   quote_calls, acquired, open_sessions>>
    /\ UNCHANGED service_vars

Step(c) ==
    \/ Call(c)
    \/ Normalize(c)
    \/ Quote(c)
    \/ EnterSession(c)
    \/ Dispatch(c)
    \/ EngineReturns(c)
    \/ EngineRaises(c)
    \/ ExitSession(c)
    \/ Return(c)

\* one call of run at a time
Sequential == {1}

Next == \E c \in Sequential : Step(c)

Spec == Init /\ [][Next]_vars

\* ------------------------------------------------- two calls, one after
\* the other, of the same processor with the same collaborators

\* the first call is given one candidate, a project and a data source
FirstArgs ==
    {a \in ArgsSet : /\ Len(a.replies) = 1
                     /\ a.project_id # PyNone
                     /\ a.data_source # <<>>}

\* the second call has the configuration of the first, the same first
\* candidate and any trailing candidates
SameFirstArgs(a) ==
    {[a EXCEPT !.replies = <<a.replies[1]>> \o t] : t \in Trails}

\* the value of key sql of the envelope the cleaned candidate is, when it is
Envelope(reply) ==
    IF ~IsStr(reply) THEN {}
    ELSE LET cleaned == CleanText(reply.str)
         IN  IF /\ StartsWith(cleaned, <<"{">>)
                /\ orjson_loads(cleaned).ok
                /\ S_sql \in DOMAIN orjson_loads(cleaned).obj
             THEN {orjson_loads(cleaned).obj[S_sql]}
             ELSE {}

\* the second call has the configuration of the first, and for only
\* candidate the bare SQL of the envelope the first was given
BareArgs(a) ==
    {[a EXCEPT !.replies = <<PyStr(sql)>>] : sql \in Envelope(a.replies[1])}

CallFirst == \E a \in FirstArgs : CallWith(1, a)

CallSameFirst ==
    /\ pc[1] = "done"
    /\ \E a \in SameFirstArgs(args[1]) : CallWith(2, a)

CallBare ==
    /\ pc[1] = "done"
    /\ \E a \in BareArgs(args[1]) : CallWith(2, a)

\* an engine request without the session it travels on
Anon(req) == [req EXCEPT !.session = 0]

AnonCalls(c) == [i \in DOMAIN engine_calls[c] |-> Anon(engine_calls[c][i])]

\* add_quotes is a function of its argument: given the argument of the
\* first call it ends as it did then
SameAddQuotes ==
    (/\ quote_calls[1] # <<>>
     /\ quote_calls[2] # <<>>
     /\ quote_calls[2][1].sql = quote_calls[1][1].sql)
    => quote_calls[2][1].returned = quote_calls[1][1].returned

\* ClientSession() takes no argument: it ends as it did in the first call
SameClientSession ==
    (acquired[1] # <<>> \/ raised[1] = "RuntimeError")
    => /\ acquired[2] # <<>> => acquired[1] # <<>>
       /\ raised[2] = "RuntimeError" => raised[1] = "RuntimeError"

\* the engine is a function of the request: given the request of the first
\* call it answers, or raises, as it did then
SameEngine ==
    (/\ engine_calls[1] # <<>>
     /\ engine_calls[2] # <<>>
     /\ AnonCalls(2)[1] = AnonCalls(1)[1])
    => /\ engine_replies[2] # <<>> => engine_replies[2] = engine_replies[1]
       /\ raised[2] = "ClientError" => raised[1] = "ClientError"

Deterministic == SameAddQuotes /\ SameClientSession /\ SameEngine

RunFirst ==
    \/ Normalize(1)
    \/ Quote(1)
    \/ EnterSession(1)
    \/ Dispatch(1)
    \/ EngineReturns(1)
    \/ EngineRaises(1)
    \/ ExitSession(1)
    \/ Return(1)

RunSecond ==
    \/ Normalize(2)
    \/ Quote(2) /\ Deterministic'
    \/ EnterSession(2) /\ Deterministic'
    \/ Dispatch(2)
    \/ EngineReturns(2) /\ Deterministic'
    \/ EngineRaises(2) /\ Deterministic'
    \/ ExitSession(2)
    \/ Return(2)

NextPair == CallFirst \/ RunFirst \/ CallSameFirst \/ CallBare \/ RunSecond

SpecPair == Init /\ [][NextPair]_vars

\* ------------------------------------------------- two calls in flight
\* together on one processor

\* a second statement, for the call that is not given R_Plain
R_Other == <<"S", "E", "L", "E", "C", "T", " ", "b">>

\* each call has a candidate of its own, or the one add_quotes rejects
OwnCandidates(c) == {IF c = 1 THEN R_Plain ELSE R_Other, R_BadQuote}

ConcArgs(c) ==
    {[replies |-> <<PyStr(t)>>, timeout |-> DefaultTimeout,
      project_id |-> PyStr(<<"p">>), use_dry_plan |-> p,
      allow_dry_plan_fallback |-> TRUE, data_source |-> <<"p", "g">>,
      allow_data_preview |-> v] :
        t \in OwnCandidates(c), p \in BOOLEAN, v \in BOOLEAN}

\* the answers of the engine the two calls are run against
ConcReplies ==
    [ok : BOOLEAN,
     error : {PyStr(<<>>), PyStr(S_SyntaxError), PyStr(S_TimedOutDetail)}]
    \cup
    [ok : BOOLEAN,
     addition : {MkAddition(cid, PyStr(e)) :
                    cid \in CorrelationIds, e \in {<<>>, S_SyntaxError}}]

ConcReply(c) ==
    engine_replies[c] # <<>> => engine_replies[c][1] \in ConcReplies

CallConc(c) == \E a \in ConcArgs(c) : CallWith(c, a)

RunConc(c) ==
    \/ Normalize(c)
    \/ Quote(c)
    \/ EnterSession(c)
    \/ Dispatch(c)
    \/ EngineReturns(c) /\ ConcReply(c)'
    \/ EngineRaises(c)
    \/ ExitSession(c)
    \/ Return(c)

NextConc == \E c \in Calls : CallConc(c) \/ RunConc(c)

SpecConc == Init /\ [][NextConc]_vars

\* ------------------------------------------------- InstructionsService

\* src.pipelines.indexing.instructions.Instruction as index builds it
Item(id, instruction, question, is_default, scope) ==
    [id |-> id, instruction |-> instruction, question |-> question,
     is_default |-> is_default, scope |-> scope]

\* lines 82-102 without the test of line 82: one item per question
ItemsOfPerQuestion(instruction) ==
    [i \in 1..Len(instruction.questions) |->
        Item(instruction.id, instruction.instruction,
             instruction.questions[i], instruction.is_default,
             instruction.scope)]

\* lines 82-102: the items one instruction of the request contributes
ItemsOf(instruction) ==
    IF instruction.is_default
    THEN <<Item(instruction.id, instruction.instruction, <<>>, TRUE,
                instruction.scope)>>
    ELSE [i \in 1..Len(instruction.questions) |->
            Item(instruction.id, instruction.instruction,
                 instruction.questions[i], FALSE, instruction.scope)]

\* lines 80-102: the loop over request.instructions
RECURSIVE ItemsFrom(_, _)
ItemsFrom(instructions, i) ==
    IF i > Len(instructions) THEN <<>>
    ELSE ItemsOf(instructions[i]) \o ItemsFrom(instructions, i + 1)

IndexItems(instructions) == ItemsFrom(instructions, 1)

\* line 143
DeleteItems(instruction_ids) ==
    [i \in 1..Len(instruction_ids) |-> [id |-> instruction_ids[i]]]

\* lines 69-107: index is called and suspends on the pipeline's run
IndexWith(k, r, t) ==
    /\ service_pc[k] = "idle"
    /\ request' = [request EXCEPT ![k] = r]
    /\ trace_id' = [trace_id EXCEPT ![k] = t]
    /\ pipeline_calls' =
          [pipeline_calls EXCEPT
              ![k] = Append(@, [op |-> "run", project_id |-> r.project_id,
                                instructions |-> IndexItems(r.instructions)])]
    /\ service_pc' = [service_pc EXCEPT ![k] = "awaiting"]
    /\ UNCHANGED <<cache, returned, writes, lookup>>
    /\ UNCHANGED processor_vars

Index(k) ==
    \E r \in IndexRequests(MaxInstructions), t \in TraceIds : IndexWith(k, r, t)

\* lines 132-146: delete is called and suspends on the pipeline's clean
DeleteWith(k, r, t) ==
    /\ service_pc[k] = "idle"
    /\ request' = [request EXCEPT ![k] = r]
    /\ trace_id' = [trace_id EXCEPT ![k] = t]
    /\ pipeline_calls' =
          [pipeline_calls EXCEPT
              ![k] = Append(@, [op |-> "clean", project_id |-> r.project_id,
                                instructions |-> DeleteItems(r.instruction_ids)])]
    /\ service_pc' = [service_pc EXCEPT ![k] = "awaiting"]
    /\ UNCHANGED <<cache, returned, writes, lookup>>
    /\ UNCHANGED processor_vars

Delete(k) == \E r \in DeleteRequests, t \in TraceIds : DeleteWith(k, r, t)

\* lines 109-114 and 148-153
FinishedEvent(r, t) == Event(r.event_id, "finished", PyNone, t, r.request_from)

\* lines 54-60 with status left out of the Event, which then has its default
HandleExceptionNoStatus(id, message, t, request_from) ==
    Event(id, DefaultStatus, Error("OTHERS", message), t, request_from)

\* lines 54-60: the event _handle_exception stores
HandleException(id, message, t, request_from) ==
    Event(id, "failed", Error("OTHERS", message), t, request_from)

\* lines 119 and 157
FailureMessage(op, text) ==
    (IF op = "index" THEN S_IndexFailed ELSE S_DeleteFailed) \o text

\* the cache write (lines 109, 148 or 54) and the return (lines 124, 162),
\* which no await separates
Settle(k, outcome, event) ==
    /\ cache' = [cache EXCEPT ![request[k].event_id] = event]
    /\ writes' = Append(writes, [call |-> k, outcome |-> outcome,
                                 replaced |-> cache[request[k].event_id],
                                 event |-> event])
    /\ returned' =
          [returned EXCEPT ![k] = WithMetadata(cache'[request[k].event_id])]
    /\ service_pc' = [service_pc EXCEPT ![k] = "returned"]
    /\ UNCHANGED <<request, trace_id, pipeline_calls, lookup>>
    /\ UNCHANGED processor_vars

\* lines 109-124 with an await between the cache write and the return, as a
\* flush of the trace after line 114 would be
PipelineReturnsSuspended(k) ==
    \/ /\ service_pc[k] = "awaiting"
       /\ cache' = [cache EXCEPT
                       ![request[k].event_id] =
                           FinishedEvent(request[k], trace_id[k])]
       /\ writes' =
             Append(writes,
                    [call |-> k, outcome |-> "returned",
                     replaced |-> cache[request[k].event_id],
                     event |-> FinishedEvent(request[k], trace_id[k])])
       /\ service_pc' = [service_pc EXCEPT ![k] = "written"]
       /\ UNCHANGED <<request, trace_id, pipeline_calls, returned, lookup>>
       /\ UNCHANGED processor_vars
    \/ /\ service_pc[k] = "written"
       /\ cache[request[k].event_id] # NoEntry
       /\ returned' =
             [returned EXCEPT
                 ![k] = WithMetadata(cache[request[k].event_id])]
       /\ service_pc' = [service_pc EXCEPT ![k] = "returned"]
       /\ UNCHANGED <<cache, request, trace_id, pipeline_calls, writes,
                      lookup>>
       /\ UNCHANGED processor_vars

\* lines 104-114, 124 and 144-153, 162: the pipeline call completes
PipelineReturns(k) ==
    /\ service_pc[k] = "awaiting"
    /\ Settle(k, "returned", FinishedEvent(request[k], trace_id[k]))

\* lines 116-124 and 154-162: the pipeline call raises
PipelineRaises(k) ==
    /\ service_pc[k] = "awaiting"
    /\ \E text \in ExceptionTexts :
          Settle(k, "raised",
                 HandleException(request[k].event_id,
                                 FailureMessage(request[k].op, text),
                                 trace_id[k], request[k].request_from))

\* line 178: __setitem__
SetItem(event_id, value) ==
    /\ cache' = [cache EXCEPT ![event_id] = value]
    /\ UNCHANGED <<service_pc, request, trace_id, pipeline_calls, returned,
                   writes, lookup>>
    /\ UNCHANGED processor_vars

\* line 43: the TTLCache drops an entry, its time over or the cache full
Expire(event_id) ==
    /\ cache[event_id] # NoEntry
    /\ cache' = [cache EXCEPT ![event_id] = NoEntry]
    /\ UNCHANGED <<service_pc, request, trace_id, pipeline_calls, returned,
                   writes, lookup>>
    /\ UNCHANGED processor_vars

\* line 168
NotFoundMessage(event_id) == S_NotFoundHead \o event_id \o S_NotFoundTail

\* lines 170-174
NotFoundEvent(event_id) ==
    Event(event_id, "failed", Error("OTHERS", NotFoundMessage(event_id)),
          PyNone, DefaultRequestFrom)

\* lines 164-176 with the event made for a missing id kept in the cache
GetItemStoring(event_id) ==
    /\ LET response == IF cache[event_id] = NoEntry
                       THEN NotFoundEvent(event_id)
                       ELSE cache[event_id]
       IN  /\ cache' = [cache EXCEPT ![event_id] = response]
           /\ lookup' = [event_id |-> event_id, response |-> response,
                         before |-> cache[event_id],
                         after |-> cache'[event_id],
                         others_kept |->
                            \A id \in EventIds \ {event_id} :
                                cache'[id] = cache[id]]
    /\ UNCHANGED <<service_pc, request, trace_id, pipeline_calls, returned,
                   writes>>
    /\ UNCHANGED processor_vars

\* lines 164-176: __getitem__
GetItem(event_id) ==
    /\ LET response == IF cache[event_id] = NoEntry
                       THEN NotFoundEvent(event_id)
                       ELSE cache[event_id]
       IN  /\ cache' = cache
           /\ lookup' = [event_id |-> event_id, response |-> response,
                         before |-> cache[event_id],
                         after |-> cache'[event_id],
                         others_kept |->
                            \A id \in EventIds \ {event_id} :
                                cache'[id] = cache[id]]
    /\ UNCHANGED <<service_pc, request, trace_id, pipeline_calls, returned,
                   writes>>
    /\ UNCHANGED processor_vars

\* one call of index or delete, the routes and the lookups around it
NextService ==
    \/ \E k \in Sequential :
          Index(k) \/ Delete(k) \/ PipelineReturns(k) \/ PipelineRaises(k)
    \/ \E id \in EventIds :
          \/ \E value \in PendingEvents(id) : SetItem(id, value)
          \/ Expire(id)
          \/ GetItem(id)

SpecService == Init /\ [][NextService]_vars

\* the requests of calls in flight together: no instructions, and the
\* trace of the call
ConcRequests(k) ==
    {r \in IndexRequests(0) \cup DeleteRequests :
        /\ r.request_from = (IF k = 1 THEN "ui" ELSE "api")
        /\ r.op = "delete" => r.instruction_ids = <<>>}

ConcTrace(k) == IF k = 1 THEN PyStr(<<"t">>) ELSE PyNone

IndexConc(k) ==
    \E r \in ConcRequests(k) : r.op = "index" /\ IndexWith(k, r, ConcTrace(k))

DeleteConc(k) ==
    \E r \in ConcRequests(k) : r.op = "delete" /\ DeleteWith(k, r, ConcTrace(k))

\* the calls of index and delete interleave at their await
NextServiceConc ==
    \/ \E k \in Calls :
          \/ IndexConc(k)
          \/ DeleteConc(k)
          \/ PipelineReturns(k)
          \/ PipelineRaises(k)
    \/ \E id \in EventIds : Expire(id)

SpecServiceConc == Init /\ [][NextServiceConc]_vars

\* -------------------------------------------------------------- claims

Done(c) == pc[c] = "done"

\* add_quotes was called and returned
Quoted(c) == quote_calls[c] # <<>> /\ quote_calls[c][1].returned

\* the candidate handed to add_quotes, and what add_quotes answered
Candidate(c) == quote_calls[c][1].sql
QuotedSqlOf(c) == add_quotes(Candidate(c))[1]
QuoteErrorOf(c) == add_quotes(Candidate(c))[2]

QuotingError(c) == Quoted(c) /\ QuoteErrorOf(c) # <<>>
QuotingSucceeded(c) == Quoted(c) /\ QuoteErrorOf(c) = <<>>

Valid(c) == result[c].valid_generation_result
Invalid(c) == result[c].invalid_generation_result

\* the engine answered the call's request, and what it answered
Answered(c) == engine_replies[c] # <<>>
Reply(c) == engine_replies[c][1]

\* the error message of an engine answer: dry_plan's second value, or the
\* error_message entry of execute_sql's addition ("" when it has none)
ReplyError(r) ==
    IF "error" \in DOMAIN r THEN r.error
    ELSE Get(r.addition, "error_message", PyStr(<<>>))

TimedOut(r) == IsStr(ReplyError(r)) /\ StartsWith(ReplyError(r).str, S_RequestTimedOut)

\* C1: when add_quotes reports a non-empty error (and no step of the call
\* raises), run returns an empty valid result and the invalid result
\* {sql: the candidate handed to add_quotes, type: ADD_QUOTES, error: the
\* quoting error}, whatever use_dry_plan and allow_data_preview are.
C1_AddQuotesInvalid ==
    \A c \in Calls :
        Done(c) /\ QuotingError(c) /\ raised[c] = ""
        => /\ Valid(c) = EmptyDict
           /\ {"sql", "type", "error"} \subseteq DOMAIN Invalid(c)
           /\ Invalid(c).sql = Candidate(c)
           /\ Invalid(c).type = "ADD_QUOTES"
           /\ Invalid(c).error = QuoteErrorOf(c)
           /\ Candidate(c) = Normalized(args[c].replies)

\* a JSON-wrapped candidate whose SQL cannot be quoted, classified with both
\* flags set
C1_Witness ==
    /\ Done(1) /\ QuotingError(1) /\ raised[1] = ""
    /\ args[1].use_dry_plan /\ args[1].allow_data_preview
    /\ args[1].replies[1] = PyStr(R_JsonBadSql)
    /\ Invalid(1).error = S_Unterminated

\* C2: in a call where add_quotes reports an error, no engine operation is
\* invoked at any point of the call.
C2_NoEngineCallOnQuotingError ==
    \A c \in Calls :
        QuotingError(c) => engine_calls[c] = <<>> /\ engine_replies[c] = <<>>

C2_Witness ==
    /\ Done(1) /\ QuotingError(1) /\ raised[1] = ""
    /\ ~args[1].use_dry_plan /\ args[1].allow_data_preview
    /\ Invalid(1) # EmptyDict
    /\ engine_calls[1] = <<>>

\* C3 (as claimed): every non-empty invalid outcome has the fields sql, type,
\* error and correlation_id, and the ADD_QUOTES one has correlation_id "".
C3_InvalidHasCorrelationId ==
    \A c \in Calls :
        Done(c) /\ Invalid(c) # EmptyDict
        => /\ DOMAIN Invalid(c) = {"sql", "type", "error", "correlation_id"}
           /\ (Invalid(c).type = "ADD_QUOTES")
                  => (Invalid(c).correlation_id = "")

\* C4: no exception leaves run; a call in which a step raised returns
\* valid_generation_result = {} and invalid_generation_result = {}.
C4_ExceptionsBecomeEmpty ==
    \A c \in Calls :
        /\ pc[c] # "propagated"
        /\ Done(c) /\ raised[c] # ""
           => /\ Valid(c) = EmptyDict
              /\ Invalid(c) = EmptyDict

\* the engine reported a failure with a None message, and the outcome mapping
\* raised on its startswith
C4_Witness ==
    /\ Done(1) /\ raised[1] = "AttributeError"
    /\ Answered(1) /\ ~Reply(1).ok /\ ReplyError(Reply(1)) = PyNone
    /\ result[1] = ExceptResult

\* C5: a call that returns without an exception has exactly one of the two
\* results non-empty; both are empty only when an exception was caught.
C5_ExactlyOneOutcome ==
    \A c \in Calls :
        Done(c)
        => /\ (raised[c] = "")
                  => ((Valid(c) = EmptyDict) <=> (Invalid(c) # EmptyDict))
           /\ ~(Valid(c) # EmptyDict /\ Invalid(c) # EmptyDict)
           /\ (Valid(c) = EmptyDict /\ Invalid(c) = EmptyDict)
                  => (raised[c] # "")

\* a live preview that failed without a message: still exactly one outcome
C5_Witness ==
    /\ Done(1) /\ raised[1] = ""
    /\ Answered(1) /\ ~Reply(1).ok /\ ReplyError(Reply(1)) = PyStr(<<>>)
    /\ ~args[1].use_dry_plan /\ args[1].allow_data_preview
    /\ Valid(1) = EmptyDict /\ Invalid(1) # EmptyDict

\* C6: with use_dry_plan set, once quoting succeeded the engine operation
\* invoked is dry_plan, and execute_sql is never invoked, for both values of
\* allow_data_preview.
C6_DryPlanFirst ==
    \A c \in Calls :
        args[c].use_dry_plan
        => /\ \A i \in DOMAIN engine_calls[c] : engine_calls[c][i].op = "dry_plan"
           /\ pc[c] \in {"await_engine", "exit_session", "return", "done"}
              /\ QuotingSucceeded(c) /\ acquired[c] # <<>>
              => /\ Len(engine_calls[c]) = 1
                 /\ engine_calls[c][1].sql = QuotedSqlOf(c)
                 /\ engine_calls[c][1].data_source = args[c].data_source
                 /\ engine_calls[c][1].allow_fallback
                        = args[c].allow_dry_plan_fallback

C6_Witness ==
    /\ pc[1] = "await_engine"
    /\ args[1].use_dry_plan /\ args[1].allow_data_preview
    /\ Len(engine_calls[1]) = 1 /\ engine_calls[1][1].op = "dry_plan"

\* C7: execute_sql with dry_run = false is issued only with use_dry_plan
\* false and allow_data_preview true; with both flags false the one engine
\* call is execute_sql with dry_run = true; every execute_sql has limit 1.
C7_ExecuteModes ==
    \A c \in Calls :
        /\ \A i \in DOMAIN engine_calls[c] :
              engine_calls[c][i].op = "execute_sql"
              => /\ engine_calls[c][i].limit = 1
                 /\ ~args[c].use_dry_plan
                 /\ engine_calls[c][i].dry_run = ~args[c].allow_data_preview
        /\ pc[c] \in {"await_engine", "exit_session", "return", "done"}
           /\ QuotingSucceeded(c) /\ acquired[c] # <<>>
           /\ ~args[c].use_dry_plan /\ ~args[c].allow_data_preview
           => /\ Len(engine_calls[c]) = 1
              /\ engine_calls[c][1].op = "execute_sql"
              /\ engine_calls[c][1].dry_run

\* a real execution in flight
C7_Witness ==
    /\ pc[1] = "await_engine"
    /\ ~args[1].use_dry_plan /\ args[1].allow_data_preview
    /\ Len(engine_calls[1]) = 1
    /\ engine_calls[1][1].op = "execute_sql" /\ ~engine_calls[1][1].dry_run

\* C8: in each mode, when the engine reports success the call returns a
\* non-empty valid outcome whose sql is the SQL add_quotes returned, and an
\* empty invalid outcome.
C8_SuccessIsValidQuoted ==
    \A c \in Calls :
        Done(c) /\ Answered(c) /\ Reply(c).ok
        => /\ Valid(c) # EmptyDict
           /\ Valid(c).sql = QuotedSqlOf(c)
           /\ Invalid(c) = EmptyDict

\* a live preview of a fenced candidate: the quoted SQL differs from it
C8_Witness ==
    /\ Done(1) /\ Answered(1) /\ Reply(1).ok
    /\ ~args[1].use_dry_plan /\ args[1].allow_data_preview
    /\ args[1].replies[1] = PyStr(R_Fenced)
    /\ Valid(1).sql # Candidate(1)
    /\ Valid(1).sql # R_Fenced

\* C9: in every mode, an engine failure whose message begins with
\* "Request timed out" gives the invalid type TIME_OUT with that message.
C9_TimeOut ==
    \A c \in Calls :
        Done(c) /\ Answered(c) /\ ~Reply(c).ok /\ TimedOut(Reply(c))
        => /\ Invalid(c) # EmptyDict
           /\ Invalid(c).type = "TIME_OUT"
           /\ Invalid(c).error = ReplyError(Reply(c)).str

\* a dry run that timed out, the message carrying more than the prefix
C9_Witness ==
    /\ Done(1) /\ Answered(1) /\ ~Reply(1).ok
    /\ ReplyError(Reply(1)) = PyStr(S_TimedOutDetail)
    /\ ~args[1].use_dry_plan /\ ~args[1].allow_data_preview
    /\ Invalid(1).type = "TIME_OUT"

\* C10: a live preview that failed with a message not beginning with
\* "Request timed out" is invalid with type PREVIEW_EMPTY_DATA when the
\* message is "" (also when addition has no error_message) and
\* PREVIEW_FAILED when it is not empty; it is never valid.
C10_PreviewFailure ==
    \A c \in Calls :
        /\ Done(c) /\ Answered(c) /\ ~Reply(c).ok
        /\ ~args[c].use_dry_plan /\ args[c].allow_data_preview
        /\ IsStr(ReplyError(Reply(c))) /\ ~TimedOut(Reply(c))
        => /\ Valid(c) = EmptyDict
           /\ Invalid(c) # EmptyDict
           /\ Invalid(c).type =
                 IF ReplyError(Reply(c)).str = <<>> THEN "PREVIEW_EMPTY_DATA"
                 ELSE "PREVIEW_FAILED"

\* the addition has no error_message key at all
C10_Witness ==
    /\ Done(1) /\ Answered(1) /\ ~Reply(1).ok
    /\ ~args[1].use_dry_plan /\ args[1].allow_data_preview
    /\ "error_message" \notin DOMAIN Reply(1).addition
    /\ Invalid(1).type = "PREVIEW_EMPTY_DATA"

\* the branch a call takes once quoting succeeded
ModeOf(c) ==
    IF args[c].use_dry_plan THEN "DRY_PLAN"
    ELSE IF args[c].allow_data_preview THEN "LIVE_PREVIEW"
    ELSE "DRY_RUN"

\* the engine reported a failure whose message is a str that does not begin
\* with "Request timed out"
PlainFailure(c) ==
    /\ Answered(c) /\ ~Reply(c).ok
    /\ IsStr(ReplyError(Reply(c))) /\ ~TimedOut(Reply(c))

\* C11: an engine failure whose message does not begin with "Request timed
\* out" gives the invalid type DRY_PLAN in DRY_PLAN mode and DRY_RUN in
\* DRY_RUN mode, and the outcome's error is the engine's message (for
\* DRY_RUN, addition's error_message, "" when the key is absent).
C11_ModeFailureType ==
    \A c \in Calls :
        Done(c) /\ PlainFailure(c) /\ ModeOf(c) \in {"DRY_PLAN", "DRY_RUN"}
        => /\ Valid(c) = EmptyDict
           /\ Invalid(c) # EmptyDict
           /\ Invalid(c).type = ModeOf(c)
           /\ Invalid(c).error = ReplyError(Reply(c)).str
           /\ ModeOf(c) = "DRY_PLAN" => Invalid(c).error = Reply(c).error.str
           /\ (ModeOf(c) = "DRY_RUN"
               /\ "error_message" \notin DOMAIN Reply(c).addition)
              => Invalid(c).error = <<>>

\* a dry plan rejected with a message that contains the timeout text, but
\* not at its start
C11_Witness ==
    /\ Done(1) /\ PlainFailure(1) /\ ModeOf(1) = "DRY_PLAN"
    /\ Reply(1).error = PyStr(S_TimedOutInside)
    /\ Invalid(1).type = "DRY_PLAN"

\* the outcome of a call that returned one: the non-empty dict
OutcomeOf(c) == IF Valid(c) # EmptyDict THEN Valid(c) ELSE Invalid(c)

\* the call returned the outcome of an answered engine call
Classified(c) == Done(c) /\ Answered(c) /\ raised[c] = ""

\* C12: every outcome produced in DRY_PLAN mode, valid or invalid, has
\* correlation_id = "", whatever the engine answered.
C12_DryPlanNoCorrelationId ==
    \A c \in Calls :
        Classified(c) /\ ModeOf(c) = "DRY_PLAN"
        => /\ "correlation_id" \in DOMAIN OutcomeOf(c)
           /\ OutcomeOf(c).correlation_id = ""

\* a rejected dry plan
C12_Witness ==
    /\ Classified(1) /\ ModeOf(1) = "DRY_PLAN"
    /\ ~Reply(1).ok /\ Reply(1).error = PyStr(S_SyntaxError)
    /\ Invalid(1) # EmptyDict /\ Invalid(1).correlation_id = ""

\* C13: in DRY_RUN and LIVE_PREVIEW modes the correlation_id of the outcome,
\* valid or invalid, is the correlation_id of the engine's addition, and ""
\* when addition has no such key.
C13_CorrelationIdFromAddition ==
    \A c \in Calls :
        Classified(c) /\ ModeOf(c) \in {"DRY_RUN", "LIVE_PREVIEW"}
        => /\ "correlation_id" \in DOMAIN OutcomeOf(c)
           /\ OutcomeOf(c).correlation_id =
                 IF "correlation_id" \in DOMAIN Reply(c).addition
                 THEN Reply(c).addition.correlation_id
                 ELSE ""

\* a dry run that succeeded with correlation id "abc"
C13_Witness ==
    /\ Classified(1) /\ ModeOf(1) = "DRY_RUN" /\ Reply(1).ok
    /\ "correlation_id" \in DOMAIN Reply(1).addition
    /\ Reply(1).addition.correlation_id = "abc"
    /\ Valid(1).correlation_id = "abc"

\* run has left its body: it is about to return, or has returned
Leaving(c) == pc[c] \in {"return", "done", "propagated"}

\* the sessions a call acquired
SessionsOf(c) == {acquired[c][i] : i \in DOMAIN acquired[c]}

\* C14: every session a call acquired is closed before run returns, on every
\* exit path (engine success, a handled invalid outcome, the ADD_QUOTES
\* short-circuit, an exception of the engine call or of the outcome mapping);
\* once every call has returned no session is open.
C14_SessionReleased ==
    /\ \A c \in Calls : Leaving(c) => SessionsOf(c) \cap open_sessions = {}
    /\ (\A c \in Calls : pc[c] = "idle" \/ Leaving(c)) => open_sessions = {}
    /\ open_sessions \subseteq UNION {SessionsOf(c) : c \in Calls}

\* the engine call raised inside the session's block
C14_Witness ==
    /\ Done(1) /\ raised[1] = "ClientError"
    /\ acquired[1] # <<>> /\ engine_calls[1] # <<>>
    /\ open_sessions = {}

\* the engine call of the call has been issued
Issued(c) == pc[c] \in {"await_engine", "exit_session", "return", "done"}

\* C15: one call of run issues at most one engine call, dry_plan and
\* execute_sql counted together, and exactly one once quoting succeeded and
\* the session is open; an engine failure, timeout or exception is followed
\* by no further engine call.
C15_NoRetry ==
    \A c \in Calls :
        /\ Len(engine_calls[c]) <= 1
        /\ Len(engine_replies[c]) <= Len(engine_calls[c])
        /\ (Issued(c) /\ QuotingSucceeded(c) /\ acquired[c] # <<>>)
           => Len(engine_calls[c]) = 1
        /\ (Leaving(c) /\ (raised[c] = "ClientError" \/ Answered(c)))
           => Len(engine_calls[c]) = 1

\* a timed out dry plan: the call returned after its single engine call
C15_Witness ==
    /\ Done(1) /\ Answered(1) /\ ~Reply(1).ok /\ TimedOut(Reply(1))
    /\ ModeOf(1) = "DRY_PLAN"
    /\ Len(engine_calls[1]) = 1
    /\ Invalid(1).type = "TIME_OUT"

\* the second call was given the first candidate of the first call
SameFirst == args[2].replies # <<>> /\ args[2].replies[1] = args[1].replies[1]

SameConfiguration ==
    [args[2] EXCEPT !.replies = <<>>] = [args[1] EXCEPT !.replies = <<>>]

\* C16: only element 0 of replies is consumed: two calls whose replies have
\* the same first element, with the same configuration and deterministic
\* collaborators, make the same add_quotes calls and the same engine calls
\* and return the same result, whatever the trailing elements.
C16_OnlyFirstReplyConsumed ==
    (Done(1) /\ Done(2) /\ SameFirst /\ SameConfiguration)
    => /\ result[2] = result[1]
       /\ quote_calls[2] = quote_calls[1]
       /\ AnonCalls(2) = AnonCalls(1)

\* the first candidate is valid SQL, the trailing one is not: both calls
\* return the valid outcome of the first candidate
C16_Witness ==
    /\ Done(1) /\ Done(2) /\ SameFirst /\ SameConfiguration
    /\ Len(args[2].replies) > Len(args[1].replies)
    /\ args[2].replies[1] = PyStr(R_Plain)
    /\ args[2].replies[2] = PyStr(R_BadQuote)
    /\ Valid(1) # EmptyDict
    /\ Valid(2) = Valid(1)

\* the cleaned first candidate of the call
CleanedFirst(c) == CleanText(args[c].replies[1].str)

\* the second call was given, for only candidate, text that cleans to the
\* bare SQL of the envelope the first call was given
BareOfFirst ==
    /\ Len(args[2].replies) = 1
    /\ IsStr(args[2].replies[1])
    /\ CleanedFirst(2) \in Envelope(args[1].replies[1])

\* C17: when the cleaned first candidate is a JSON object with key sql, the
\* value of that key is what add_quotes is given, and run returns what it
\* returns for a reply that cleans to that bare SQL; cleaned text that does
\* not begin with "{" is given to add_quotes as it is.
C17_EnvelopeUnwrapped ==
    /\ \A c \in Calls :
          (quote_calls[c] # <<>>)
          => /\ Len(quote_calls[c]) = 1
             /\ Envelope(args[c].replies[1]) # {}
                => Candidate(c) \in Envelope(args[c].replies[1])
             /\ ~StartsWith(CleanedFirst(c), <<"{">>)
                => Candidate(c) = CleanedFirst(c)
    /\ (Done(1) /\ Done(2) /\ SameConfiguration /\ BareOfFirst)
       => /\ result[2] = result[1]
          /\ quote_calls[2] = quote_calls[1]

\* {"sql": "SELECT a"} and SELECT a: both calls quote SELECT a and return
\* the same valid outcome
C17_Witness ==
    /\ Done(1) /\ Done(2) /\ SameConfiguration /\ BareOfFirst
    /\ args[1].replies[1] = PyStr(R_Json)
    /\ args[2].replies[1] = PyStr(R_Plain)
    /\ Candidate(1) = R_Plain
    /\ Valid(1) # EmptyDict
    /\ Valid(2) = Valid(1)

\* the first candidate cannot be normalized: the cleanup fails on it, or its
\* cleaned text begins with "{" and is no JSON object with key sql
Unusable(c) ==
    /\ args[c].replies # <<>>
    /\ \/ ~IsStr(args[c].replies[1])
       \/ /\ StartsWith(CleanedFirst(c), <<"{">>)
          /\ Envelope(args[c].replies[1]) = {}

\* C18: malformed JSON, a JSON object without key sql, or a failing cleanup
\* abort the classification: add_quotes and the engine are never called, no
\* session is acquired, and run returns ({}, {}); the raw text is not
\* classified instead.
C18_NormalizerFailureAborts ==
    \A c \in Calls :
        (pc[c] \notin {"idle", "normalize"} /\ Unusable(c))
        => /\ pc[c] \in {"return", "done"}
           /\ raised[c] \in {"TypeError", "JSONDecodeError", "KeyError"}
           /\ quote_calls[c] = <<>>
           /\ engine_calls[c] = <<>>
           /\ acquired[c] = <<>>
           /\ Done(c) => result[c] = ExceptResult

\* an envelope without key sql: the call returned ({}, {}) without quoting
C18_Witness ==
    /\ Done(1) /\ Unusable(1)
    /\ args[1].replies[1] = PyStr(R_JsonNoKey)
    /\ raised[1] = "KeyError"
    /\ quote_calls[1] = <<>>
    /\ result[1] = ExceptResult

\* C19: every outcome produced after an engine call, valid or invalid and in
\* each of the three modes, carries in sql the quoted SQL add_quotes
\* returned, and that string is the SQL the engine operation was given.
C19_OutcomeSqlIsWhatWasSent ==
    \A c \in Calls :
        /\ engine_calls[c] # <<>>
           => /\ QuotingSucceeded(c)
              /\ engine_calls[c][1].sql = QuotedSqlOf(c)
        /\ Classified(c)
           => /\ OutcomeOf(c).sql = QuotedSqlOf(c)
              /\ OutcomeOf(c).sql = engine_calls[c][1].sql

\* a failed live preview of SELECT a: the invalid outcome and the engine
\* request both carry the quoted text, which is not the candidate
C19_Witness ==
    /\ Classified(1)
    /\ ModeOf(1) = "LIVE_PREVIEW"
    /\ Invalid(1) # EmptyDict
    /\ Invalid(1).sql = QuotedSqlOf(1)
    /\ engine_calls[1][1].sql = QuotedSqlOf(1)
    /\ QuotedSqlOf(1) # Candidate(1)

\* ErrorType, the values the code gives to key type
ErrorTypes ==
    {"ADD_QUOTES", "TIME_OUT", "DRY_PLAN", "DRY_RUN", "PREVIEW_EMPTY_DATA",
     "PREVIEW_FAILED"}

\* C20: the type of every non-empty invalid outcome is one of the six error
\* types and fits the path taken: ADD_QUOTES only when quoting failed,
\* DRY_PLAN only with use_dry_plan, DRY_RUN only with use_dry_plan and
\* allow_data_preview both false, PREVIEW_EMPTY_DATA and PREVIEW_FAILED only
\* with use_dry_plan false and allow_data_preview true.
C20_TypeFitsPath ==
    \A c \in Calls :
        (Done(c) /\ Invalid(c) # EmptyDict)
        => LET type == Invalid(c).type
               a == args[c]
           IN  /\ type \in ErrorTypes
               /\ type = "ADD_QUOTES" => QuotingError(c)
               /\ type = "DRY_PLAN" => a.use_dry_plan
               /\ type = "DRY_RUN"
                  => ~a.use_dry_plan /\ ~a.allow_data_preview
               /\ type \in {"PREVIEW_EMPTY_DATA", "PREVIEW_FAILED"}
                  => ~a.use_dry_plan /\ a.allow_data_preview

\* a timed out dry run: the type is TIME_OUT, not the type of the mode
C20_Witness ==
    /\ Done(1) /\ Invalid(1) # EmptyDict
    /\ ~args[1].use_dry_plan /\ ~args[1].allow_data_preview
    /\ Answered(1) /\ TimedOut(Reply(1))
    /\ Invalid(1).type = "TIME_OUT"

\* C21: run is idempotent: called twice with the same replies and the same
\* configuration against deterministic collaborators it returns the same
\* result, after the same add_quotes and engine calls; the first call leaves
\* nothing behind: no open session, and no session the second call uses.
C21_Idempotent ==
    /\ (Done(1) /\ pc[2] # "idle") => SessionsOf(1) \cap open_sessions = {}
    /\ SessionsOf(2) \cap SessionsOf(1) = {}
    /\ (Done(1) /\ Done(2) /\ args[2] = args[1])
       => /\ result[2] = result[1]
          /\ raised[2] = raised[1]
          /\ Len(quote_calls[2]) = Len(quote_calls[1])
          /\ Len(engine_calls[2]) = Len(engine_calls[1])
          /\ Len(acquired[2]) = Len(acquired[1])

\* the same candidate is rejected twice by the dry run, with the same
\* invalid outcome, on two sessions
C21_Witness ==
    /\ Done(1) /\ Done(2) /\ args[2] = args[1]
    /\ Answered(1) /\ Answered(2)
    /\ ModeOf(2) = "DRY_RUN"
    /\ Invalid(1) # EmptyDict
    /\ Invalid(2) = Invalid(1)
    /\ acquired[1] # acquired[2]

\* the call is inside the async with block of line 89
InSessionScope(c) == pc[c] \in {"dispatch", "await_engine", "exit_session"}

\* C23: a call acquires at most one session, exactly one when it ends
\* without exception, and only after add_quotes returned; an engine call is
\* issued and awaited while that session is open and is given that session;
\* the ADD_QUOTES path acquires and releases a session no engine call uses;
\* no session is acquired when add_quotes raises.
C23_SessionScope ==
    \A c \in Calls :
        /\ Len(acquired[c]) <= 1
        /\ acquired[c] # <<>> => Quoted(c)
        /\ (quote_calls[c] # <<>> /\ ~quote_calls[c][1].returned)
           => acquired[c] = <<>>
        /\ InSessionScope(c)
           => /\ Len(acquired[c]) = 1
              /\ session[c] = acquired[c][1]
              /\ session[c] \in open_sessions
        /\ engine_calls[c] # <<>>
           => /\ acquired[c] # <<>>
              /\ engine_calls[c][1].session = acquired[c][1]
        /\ (Leaving(c) /\ raised[c] = "")
           => /\ Len(acquired[c]) = 1
              /\ acquired[c][1] \notin open_sessions
        /\ (Done(c) /\ Invalid(c) # EmptyDict /\ Invalid(c).type = "ADD_QUOTES")
           => /\ Len(acquired[c]) = 1
              /\ engine_calls[c] = <<>>

\* a quoting error reported: the call held one session, released it, and
\* sent nothing to the engine
C23_Witness ==
    /\ Done(1) /\ Invalid(1) # EmptyDict
    /\ Invalid(1).type = "ADD_QUOTES"
    /\ Len(acquired[1]) = 1
    /\ acquired[1][1] \notin open_sessions
    /\ engine_calls[1] = <<>>

\* what run returns, alone, for the arguments of call c when its
\* collaborators answer as they answered call c
ResultAlone(c) ==
    LET a == args[c]
    IN  IF NormalizeError(a.replies) # "" THEN ExceptResult
        ELSE LET sql == Normalized(a.replies)
                 mode == Mode(a.use_dry_plan, UseDryRun(a.allow_data_preview))
             IN  IF ~quote_calls[c][1].returned THEN ExceptResult
                 ELSE IF acquired[c] = <<>> THEN ExceptResult
                 ELSE IF QuotingFailed(PyStr(add_quotes(sql)[2]))
                 THEN NormalResult(EmptyDict,
                                   AddQuotesFailure(sql, add_quotes(sql)[2]))
                 ELSE IF engine_replies[c] = <<>> THEN ExceptResult
                 ELSE LET o == EngineOutcome(mode, sql, add_quotes(sql)[1],
                                             Reply(c))
                      IN  IF o.raise # "" THEN ExceptResult
                          ELSE NormalResult(o.valid, o.invalid)

\* C22: two calls of run in flight together on one processor do not
\* interfere, however their steps interleave: each returns what it returns
\* alone, each has a session of its own that stays open for its whole
\* block, and each outcome carries the quoted SQL of its own call.
C22_NoInterference ==
    /\ \A c \in Calls :
          /\ Done(c) => result[c] = ResultAlone(c)
          /\ InSessionScope(c) => session[c] \in open_sessions
          /\ engine_calls[c] # <<>>
             => /\ engine_calls[c][1].session = acquired[c][1]
                /\ engine_calls[c][1].sql = QuotedSqlOf(c)
          /\ Classified(c) => OutcomeOf(c).sql = QuotedSqlOf(c)
    /\ SessionsOf(1) \cap SessionsOf(2) = {}

\* call 2 entered its block first and still awaits the engine; call 1
\* entered after it, was answered and returned the outcome of its own SQL
C22_Witness ==
    /\ pc[2] = "await_engine"
    /\ acquired[2] = <<1>> /\ acquired[1] = <<2>>
    /\ Classified(1)
    /\ OutcomeOf(1).sql = QuotedSqlOf(1)
    /\ engine_calls[2][1].sql # engine_calls[1][1].sql
    /\ 1 \in open_sessions /\ 2 \notin open_sessions

\* the call of index or delete has returned
Returned(k) == service_pc[k] = "returned"

\* the cache write of call k
WriteOf(k) == CHOOSE w \in {writes[i] : i \in DOMAIN writes} : w.call = k

\* whether text occurs in s
Contains(s, text) == \E i \in 1..(Len(s) + 1) : OccursAt(s, text, i)

\* C24: index and delete leave no event pending and propagate no pipeline
\* exception: when the call returns, the entry it wrote under
\* request.event_id is finished, without error, if the pipeline call
\* returned, and failed with an error of code OTHERS whose message contains
\* the exception text if it raised; the entry replaces whatever was there,
\* and the value returned is built from it.
C24_EventSettled ==
    \A k \in Calls :
        /\ service_pc[k] \in {"idle", "awaiting", "returned"}
        /\ Returned(k)
           => LET w == WriteOf(k)
                  r == request[k]
              IN  /\ w.event.event_id = r.event_id
                  /\ w.event.status \notin {"indexing", "deleting"}
                  /\ w.outcome = "returned"
                     => w.event = Event(r.event_id, "finished", PyNone,
                                        trace_id[k], r.request_from)
                  /\ w.outcome = "raised"
                     => /\ w.event.status = "failed"
                        /\ w.event.error # PyNone
                        /\ w.event.error.code = "OTHERS"
                        /\ \E text \in ExceptionTexts :
                              Contains(w.event.error.message, text)
                        /\ w.event.trace_id = trace_id[k]
                        /\ w.event.request_from = r.request_from
                  /\ returned[k] = WithMetadata(w.event)

\* index raised in the pipeline while the routes' indexing event was in the
\* cache: the event was replaced by a failed one, which index returned
C24_Witness ==
    /\ Returned(1)
    /\ request[1].op = "index"
    /\ WriteOf(1).outcome = "raised"
    /\ WriteOf(1).replaced # NoEntry
    /\ WriteOf(1).replaced.status = "indexing"
    /\ returned[1].resource.status = "failed"
    /\ cache[request[1].event_id] = returned[1].resource

\* C25: __getitem__ of an id the cache does not hold, never written or
\* dropped since, answers an Event with that id, status failed and an error
\* of code OTHERS, and stores nothing; of an id the cache holds it answers
\* the stored event; either way the cache is as it was.
C25_LookupLeavesCache ==
    lookup # NoLookup
    => /\ lookup.after = lookup.before
       /\ lookup.others_kept
       /\ lookup.before = NoEntry
          => /\ lookup.response.event_id = lookup.event_id
             /\ lookup.response.status = "failed"
             /\ lookup.response.error # PyNone
             /\ lookup.response.error.code = "OTHERS"
       /\ lookup.before # NoEntry => lookup.response = lookup.before

\* an event written by index and dropped by the cache is looked up: the
\* answer is the failed event made on the spot, and the id is still absent
C25_Witness ==
    /\ lookup # NoLookup
    /\ lookup.before = NoEntry
    /\ Returned(1) /\ request[1].event_id = lookup.event_id
    /\ lookup.response.status = "failed"
    /\ Contains(lookup.response.error.message, lookup.event_id)
    /\ cache[lookup.event_id] = NoEntry

\* the number of items an instruction of the request stands for
ItemCount(instruction) ==
    IF instruction.is_default THEN 1 ELSE Len(instruction.questions)

\* the number of items that stand for the instructions before the j-th
RECURSIVE ItemsBefore(_, _)
ItemsBefore(instructions, j) ==
    IF j = 1 THEN 0
    ELSE ItemsBefore(instructions, j - 1) + ItemCount(instructions[j - 1])

\* C26: index hands the pipeline, in request order, one item with an empty
\* question for each instruction with is_default true, whatever its
\* questions, and one item per question for each instruction with
\* is_default false; an instruction of the second kind without questions
\* contributes nothing, and the event is finished all the same.
C26_ItemsPerInstruction ==
    \A k \in Calls :
        (request[k].op = "index")
        => LET list == request[k].instructions
               items == pipeline_calls[k][1].instructions
           IN  /\ Len(pipeline_calls[k]) = 1
               /\ pipeline_calls[k][1].op = "run"
               /\ Len(items) = ItemsBefore(list, Len(list) + 1)
               /\ \A j \in 1..Len(list) :
                     \A q \in 1..ItemCount(list[j]) :
                        LET item == items[ItemsBefore(list, j) + q]
                        IN  /\ item.id = list[j].id
                            /\ item.instruction = list[j].instruction
                            /\ item.scope = list[j].scope
                            /\ item.is_default = list[j].is_default
                            /\ item.question =
                                  IF list[j].is_default THEN <<>>
                                  ELSE list[j].questions[q]
               /\ (Returned(k) /\ WriteOf(k).outcome = "returned")
                  => WriteOf(k).event.status = "finished"

\* an instruction without questions and a default one with a question: one
\* item, its question empty, and the event finished
C26_Witness ==
    /\ Returned(1) /\ request[1].op = "index"
    /\ Len(request[1].instructions) = 2
    /\ ~request[1].instructions[1].is_default
    /\ request[1].instructions[1].questions = <<>>
    /\ request[1].instructions[2].is_default
    /\ request[1].instructions[2].questions # <<>>
    /\ Len(pipeline_calls[1][1].instructions) = 1
    /\ pipeline_calls[1][1].instructions[1].question = <<>>
    /\ returned[1].resource.status = "finished"

\* the event a call of index or delete stores for the outcome of its pipeline
OwnEvent(k, outcome) ==
    IF outcome = "returned" THEN FinishedEvent(request[k], trace_id[k])
    ELSE CHOOSE e \in {HandleException(request[k].event_id,
                                       FailureMessage(request[k].op, text),
                                       trace_id[k], request[k].request_from) :
                          text \in ExceptionTexts} : TRUE

\* C27: calls of index and delete that interleave at their await, on the
\* same event id or not, each return the event of their own pipeline
\* outcome; once all have returned, the entry of an event id they share is
\* the one written by the call whose pipeline ended last, for as long as the
\* cache keeps it.
C27_OwnOutcomeLastWriterWins ==
    /\ \A k \in Calls :
          Returned(k)
          => /\ returned[k] = WithMetadata(WriteOf(k).event)
             /\ WriteOf(k).event = OwnEvent(k, WriteOf(k).outcome)
             /\ Cardinality({i \in DOMAIN writes : writes[i].call = k}) = 1
    /\ ((\A k \in Calls : Returned(k))
        /\ request[1].event_id = request[2].event_id)
       => /\ Len(writes) = 2
          /\ cache[request[1].event_id] \in {NoEntry, writes[2].event}

\* delete failed first, index finished after it under the same id: each
\* returned its own event, and the cache holds the one of index
C27_Witness ==
    /\ Returned(1) /\ Returned(2)
    /\ request[1].event_id = request[2].event_id
    /\ request[1].op = "index" /\ request[2].op = "delete"
    /\ writes[1].call = 2 /\ writes[1].outcome = "raised"
    /\ writes[2].call = 1 /\ writes[2].outcome = "returned"
    /\ writes[2].replaced = writes[1].event
    /\ returned[2].resource.status = "failed"
    /\ returned[1].resource.status = "finished"
    /\ cache[request[1].event_id] = returned[1].resource

====
